---- MODULE Spec2Model ----
(***************************************************************************)
(* Voice-command MCP server: the multi-engine fallback coordinator         *)
(* (mcp_server/speech_engines.py) and the tool layer over it               *)
(* (mcp_server/voice_server.py).                                           *)
(*                                                                         *)
(* Tool calls are executed one after another by a single caller.  A call   *)
(* of transcribe_once is followed through its awaits: every backend        *)
(* attempt starts in one step and finishes in another.                     *)
(***************************************************************************)
EXTENDS Integers, Sequences, FiniteSets, TLC

VARIABLES
    env,            \* process environment and installed packages, fixed at start
    speech_engine,  \* voice_server._speech_engine, the module-level singleton
    built,          \* number of MultiEngine constructions that completed
    pc,             \* position of the caller
    tool,           \* the tool of the current (or last) call
    backend_arg,    \* the backend argument of transcribe_once
    payload_arg,    \* the payload argument of ping
    engine,         \* the local variable engine of the running tool
    rwf,            \* position inside recognize_with_fallback: [stage, idx]
    inflight,       \* the backend whose recognize is being awaited
    attempts,       \* the attempts of this call, in order: [backend, stage, out, result, error]
    warnings,       \* backends for which logger.warning was called in this call
    exc_info,       \* the exception being handled in recognize_with_fallback's frame
    rwf_out,        \* how recognize_with_fallback ended: return or raise
    response,       \* the payload the last tool call returned
    caught,         \* the exception the last tool call caught in an except clause
    escaped,        \* the exception the last tool call raised to the RPC layer
    thr             \* threads inside get_speech_engine: [pc, made, inst, raised] of each

vars == <<env, speech_engine, built, pc, tool, backend_arg, payload_arg, engine, rwf,
          inflight, attempts, warnings, exc_info, rwf_out, response, caught, escaped, thr>>

----------------------------------------------------------------------------
(* Values *)

None == "None"
Unset == "<unset>"

\* the members of the enumeration RecognitionBackend
ELEVENLABS == "RecognitionBackend.ELEVENLABS"
GOOGLE == "RecognitionBackend.GOOGLE"
WHISPER == "RecognitionBackend.WHISPER"
OPENAI_REALTIME == "RecognitionBackend.OPENAI_REALTIME"
RecognitionBackend == {ELEVENLABS, GOOGLE, WHISPER, OPENAI_REALTIME}

\* member.value
value(b) ==
    CASE b = ELEVENLABS -> "elevenlabs"
      [] b = GOOGLE -> "google"
      [] b = WHISPER -> "whisper"
      [] b = OPENAI_REALTIME -> "openai"

\* [e.value for e in RecognitionBackend]
BackendValues == {value(b) : b \in RecognitionBackend}

\* RecognitionBackend(v), for v one of the values
FromValue(v) == CHOOSE b \in RecognitionBackend : value(b) = v

\* the length of the longest device list enumerated
MaxDevices == 2

\* the number of threads that call get_speech_engine at the same time
NumThreads == 2
Threads == 1..NumThreads

\* str.lower() on the names that occur
lower(s) == IF s = "Google" THEN "google" ELSE s

\* str.strip() on the keys that occur
strip(s) == IF s = " " THEN "" ELSE s

\* truth value of an optional string
Truthy(s) == s # Unset /\ s # None /\ s # ""

\* os.getenv(name, default)
getenv(name, default) == IF env[name] = Unset THEN default ELSE env[name]

NoError == [type |-> None]
NoEngine == [id |-> 0]
NoResult == [text |-> None]
NoPayload == [none |-> TRUE]

\* an exception object: its class, str(e), and the implicit __context__
NewException(type, msg, context) == [type |-> type, msg |-> msg, context |-> context]

\* messages of the exceptions raised by the audio and recognition libraries
LibMessages == {"", "device error"}

EnvNames == {Unset, "elevenlabs", "google", "openai", "Google", "bogus"}
ApiKeys == {Unset, "", " ", "sk-key"}
BackendArgs == {None, "", "google", "Google", "elevenlabs", "openai", "bogus"}

Environments ==
    [ELEVENLABS_API_KEY : ApiKeys,
     VOICE_BACKEND : EnvNames,
     VOICE_FALLBACK : EnvNames,
     elevenlabs_sdk : {"ok", "ImportError", "Exception"},
     whisper_installed : BOOLEAN,
     SPEECH_COMPONENTS_AVAILABLE : BOOLEAN]

----------------------------------------------------------------------------
(* speech_engines.py: the engines and MultiEngine.__init__ *)

\* ElevenLabsEngine.__init__: available unless the SDK import or the client fails
ElevenLabsEngine ==
    [backend |-> ELEVENLABS, type |-> "ElevenLabsEngine",
     available |-> (env.elevenlabs_sdk = "ok")]

\* GoogleEngine.__init__
GoogleEngine == [backend |-> GOOGLE, type |-> "GoogleEngine", available |-> TRUE]

\* WhisperEngine.__init__ when the whisper package is missing (ImportError caught)
WhisperEngine == [backend |-> WHISPER, type |-> "WhisperEngine", available |-> FALSE]

\* a slip: the unavailable engines are left in the mapping
PruneUnavailable_Keep(es) == es

\* the dict comprehension that removes unavailable engines, order kept
PruneUnavailable(es) == SelectSeq(es, LAMBDA e : e.available)

\* RecognitionBackend(name) if name is a value of the enumeration, else None
BackendOrNone(name) == IF name \in BackendValues THEN FromValue(name) ELSE None

\* MultiEngine.__init__.  mic_ok: sr.Microphone() in SpeechEngine.__init__ works.
\* With whisper installed WhisperEngine() calls config.get on config = None.
MultiEngineInit(mic_ok) ==
    LET first == IF Truthy(env.ELEVENLABS_API_KEY) THEN <<ElevenLabsEngine>> ELSE <<>>
        all == first \o <<GoogleEngine, WhisperEngine>>
    IN  IF ~mic_ok
        THEN [ok |-> FALSE,
              error |-> NewException("AttributeError", "Could not find PyAudio", NoError)]
        ELSE IF env.whisper_installed
        THEN [ok |-> FALSE,
              error |-> NewException("AttributeError",
                          "'NoneType' object has no attribute 'get'", NoError)]
        ELSE [ok |-> TRUE,
              engine |-> [id |-> built + 1,
                          engines |-> PruneUnavailable(all),
                          primary |-> BackendOrNone(lower(getenv("VOICE_BACKEND", "elevenlabs"))),
                          fallback |-> BackendOrNone(lower(getenv("VOICE_FALLBACK", "google")))]]

\* the keys of the engines mapping, in iteration order
Keys(e) == [i \in 1..Len(e.engines) |-> e.engines[i].backend]
KeySet(e) == {e.engines[i].backend : i \in 1..Len(e.engines)}

----------------------------------------------------------------------------
(* voice_server.py: get_speech_engine *)

\* a slip: no `is None` test, every call constructs a MultiEngine
get_speech_engine_Always(mic_ok) ==
    IF ~env.SPEECH_COMPONENTS_AVAILABLE
    THEN [raised |-> NewException("Exception", "Speech components not available", NoError),
          engine |-> NoEngine, global |-> speech_engine, made |-> 0]
    ELSE LET m == MultiEngineInit(mic_ok)
         IN  IF m.ok
             THEN [raised |-> NoError, engine |-> m.engine, global |-> m.engine, made |-> 1]
             ELSE [raised |-> m.error, engine |-> NoEngine, global |-> speech_engine, made |-> 0]

\* a slip: the singleton is bound before the constructor has finished, so a
\* construction that raises leaves a partially built engine behind
get_speech_engine_StorePartial(mic_ok) ==
    IF speech_engine # NoEngine
    THEN [raised |-> NoError, engine |-> speech_engine, global |-> speech_engine, made |-> 0]
    ELSE IF ~env.SPEECH_COMPONENTS_AVAILABLE
    THEN [raised |-> NewException("Exception", "Speech components not available", NoError),
          engine |-> NoEngine, global |-> NoEngine, made |-> 0]
    ELSE LET m == MultiEngineInit(mic_ok)
         IN  IF m.ok
             THEN [raised |-> NoError, engine |-> m.engine, global |-> m.engine, made |-> 1]
             ELSE [raised |-> m.error, engine |-> NoEngine,
                   global |-> [id |-> built + 1, engines |-> <<>>,
                               primary |-> None, fallback |-> None],
                   made |-> 0]

\* get_speech_engine: the instance the caller gets, the new value of the
\* singleton, and the exception raised instead
get_speech_engine(mic_ok) ==
    IF speech_engine # NoEngine
    THEN [raised |-> NoError, engine |-> speech_engine, global |-> speech_engine, made |-> 0]
    ELSE IF ~env.SPEECH_COMPONENTS_AVAILABLE
    THEN [raised |-> NewException("Exception", "Speech components not available", NoError),
          engine |-> NoEngine, global |-> NoEngine, made |-> 0]
    ELSE LET m == MultiEngineInit(mic_ok)
         IN  IF m.ok
             THEN [raised |-> NoError, engine |-> m.engine, global |-> m.engine, made |-> 1]
             ELSE [raised |-> m.error, engine |-> NoEngine, global |-> NoEngine, made |-> 0]

Init ==
    /\ env \in Environments
    /\ speech_engine = NoEngine
    /\ built = 0
    /\ pc = "idle"
    /\ tool = None
    /\ backend_arg = None
    /\ payload_arg = NoPayload
    /\ thr = [t \in Threads |-> [pc |-> "start", made |-> 0, inst |-> NoEngine, raised |-> NoError]]
    /\ engine = NoEngine
    /\ rwf = [stage |-> None, idx |-> 0]
    /\ inflight = None
    /\ attempts = <<>>
    /\ warnings = <<>>
    /\ exc_info = NoError
    /\ rwf_out = [kind |-> None]
    /\ response = NoPayload
    /\ caught = NoError
    /\ escaped = NoError

----------------------------------------------------------------------------
(* Outcomes of the libraries the code delegates to *)

\* what the audio binding does in one use: it works, or raises
CaptureOutcomes ==
    {[ok |-> TRUE, energy_threshold |-> 4000]} \cup
    {[ok |-> FALSE, error |-> NewException("OSError", m, NoError)] : m \in LibMessages} \cup
    {[ok |-> FALSE, error |-> NewException("WaitTimeoutError",
                                "listening timed out while waiting for phrase to start", NoError)]}

Texts == {"hello", "stop"}

\* SpeechEngine.recognize of backend b: a RecognitionResult, or the exception it raises
RecognizeOutcomes(b) ==
    {[ok |-> TRUE,
      result |-> [text |-> IF b = ELEVENLABS THEN "ElevenLabs transcription placeholder" ELSE t,
                  confidence |-> CASE b = ELEVENLABS -> 95 [] b = GOOGLE -> 90 [] OTHER -> 85,
                  backend |-> b,
                  processing_time |-> 1],
      error |-> NoError] : t \in Texts} \cup
    {[ok |-> FALSE, result |-> NoResult, error |-> e] :
        e \in {NewException("Exception", "Could not understand audio", NoError),
               NewException("ValueError", "bad response", NoError)}}

----------------------------------------------------------------------------
(* The caller: begin and end of a tool call *)

CallBegin(name, arg) ==
    /\ pc = "idle"
    /\ tool' = name
    /\ backend_arg' = IF name = "ping" THEN None ELSE arg
    /\ payload_arg' = IF name = "ping" THEN arg ELSE NoPayload
    /\ attempts' = <<>>
    /\ warnings' = <<>>
    /\ inflight' = None
    /\ exc_info' = NoError
    /\ rwf_out' = [kind |-> None]
    /\ rwf' = [stage |-> None, idx |-> 0]
    /\ UNCHANGED <<env, thr>>

\* the exception a tool's try block ends with: that of get_speech_engine, else
\* that of the audio binding, else none
Failure(g, hw) ==
    IF g.raised # NoError THEN g.raised ELSE IF ~hw.ok THEN hw.error ELSE NoError

\* the effect of engine = get_speech_engine() on the singleton
UseEngine(g) ==
    /\ speech_engine' = g.global
    /\ built' = built + g.made
    /\ engine' = g.engine

\* the tool returns payload p to the RPC layer, after catching e (or nothing)
Return(p, e) ==
    /\ response' = p
    /\ caught' = e
    /\ escaped' = NoError
    /\ pc' = "idle"

\* the tool raises e to the RPC layer
Raise(e) ==
    /\ response' = NoPayload
    /\ caught' = NoError
    /\ escaped' = e
    /\ pc' = "idle"

----------------------------------------------------------------------------
(* voice_server.py: the tools that finish without awaiting *)

Payloads == {[test |-> "data"], [n |-> 1], NoPayload}

\* a slip: ping obtains the engine like the other tools
ping_UsesEngine(payload) ==
    LET g == get_speech_engine(TRUE)
    IN  /\ CallBegin("ping", payload)
        /\ UseEngine(g)
        /\ Return([ok |-> g.raised = NoError, echo |-> payload,
                   server |-> "Claude Voice Commands"], g.raised)

ping(payload) ==
    /\ CallBegin("ping", payload)
    /\ UNCHANGED <<speech_engine, built>>
    /\ engine' = NoEngine
    /\ Return([ok |-> TRUE, echo |-> payload, server |-> "Claude Voice Commands"], NoError)

Durations == {1, 2}

\* MultiEngine.test_microphone: catches everything itself
MultiEngine_test_microphone(duration, hw) ==
    IF hw.ok
    THEN [success |-> TRUE, microphone_index |-> "default",
          energy_threshold |-> hw.energy_threshold,
          audio_captured |-> TRUE, audio_duration |-> duration]
    ELSE [success |-> FALSE, error |-> hw.error.msg, microphone_index |-> "unknown"]

test_microphone_payload(g, duration, hw) ==
    IF g.raised # NoError
    THEN [success |-> FALSE,
          error |-> "Microphone test failed: " \o g.raised.msg,
          microphone_index |-> "unknown"]
    ELSE MultiEngine_test_microphone(duration, hw)

test_microphone(duration, mic_ok, hw) ==
    LET g == get_speech_engine(mic_ok)
    IN  /\ CallBegin("test_microphone", None)
        /\ UseEngine(g)
        /\ Return(test_microphone_payload(g, duration, hw), Failure(g, hw))

calibrate_audio_payload(g, duration, hw) ==
    IF g.raised # NoError
    THEN [success |-> FALSE, error |-> "Calibration failed: " \o g.raised.msg]
    ELSE IF ~hw.ok
    THEN [success |-> FALSE, error |-> "Calibration failed: " \o hw.error.msg]
    ELSE [success |-> TRUE, energy_threshold |-> hw.energy_threshold,
          duration |-> duration, message |-> "Microphone calibrated successfully"]

calibrate_audio(duration, mic_ok, hw) ==
    LET g == get_speech_engine(mic_ok)
    IN  /\ CallBegin("calibrate_audio", None)
        /\ UseEngine(g)
        /\ Return(calibrate_audio_payload(g, duration, hw), Failure(g, hw))

\* MultiEngine.list_available_microphones: n devices, none of which is the
\* default (sr.Microphone().device_index is None)
list_available_microphones(n) ==
    [i \in 1..n |-> [index |-> i - 1, name |-> "mic", default |-> FALSE]]

list_audio_devices_payload(g, n, hw) ==
    IF g.raised # NoError
    THEN [error |-> "Failed to list audio devices: " \o g.raised.msg,
          devices |-> <<>>, total_count |-> 0]
    ELSE IF ~hw.ok
    THEN [error |-> "Failed to list audio devices: " \o hw.error.msg,
          devices |-> <<>>, total_count |-> 0]
    ELSE LET devices == list_available_microphones(n)
             defaults == {i \in 1..n : devices[i].default}
         IN  [devices |-> devices,
              default_device |-> IF defaults = {} THEN -1
                                 ELSE devices[CHOOSE i \in defaults :
                                              \A j \in defaults : i <= j].index,
              total_count |-> Len(devices)]

list_audio_devices(n, mic_ok, hw) ==
    LET g == get_speech_engine(mic_ok)
    IN  /\ CallBegin("list_audio_devices", None)
        /\ UseEngine(g)
        /\ Return(list_audio_devices_payload(g, n, hw), Failure(g, hw))

\* a slip: every member of the enumeration is reported, not the mapping's keys
engine_status_Enumeration(e) ==
    [available_engines |-> <<"elevenlabs", "google", "whisper", "openai">>,
     primary_engine |-> IF e.primary # None THEN value(e.primary) ELSE None,
     fallback_engine |-> IF e.fallback # None THEN value(e.fallback) ELSE None,
     elevenlabs_api_configured |->
        (Truthy(env.ELEVENLABS_API_KEY) /\ Truthy(strip(env.ELEVENLABS_API_KEY))),
     engine_details |-> [v \in BackendValues |-> [available |-> TRUE, type |-> "SpeechEngine"]],
     total_engines |-> Cardinality(RecognitionBackend)]

\* the response of get_engine_status for engine e
engine_status(e) ==
    [available_engines |-> [i \in 1..Len(e.engines) |-> value(Keys(e)[i])],
     primary_engine |-> IF e.primary # None THEN value(e.primary) ELSE None,
     fallback_engine |-> IF e.fallback # None THEN value(e.fallback) ELSE None,
     elevenlabs_api_configured |->
        (Truthy(env.ELEVENLABS_API_KEY) /\ Truthy(strip(env.ELEVENLABS_API_KEY))),
     engine_details |->
        [v \in {value(b) : b \in KeySet(e)} |->
            LET i == CHOOSE i \in 1..Len(e.engines) : value(e.engines[i].backend) = v
            IN  [available |-> e.engines[i].available, type |-> e.engines[i].type]],
     total_engines |-> Len(e.engines)]

get_engine_status_payload(g) ==
    IF g.raised # NoError
    THEN [error |-> "Failed to get engine status: " \o g.raised.msg,
          available_engines |-> <<>>, total_engines |-> 0]
    ELSE engine_status(g.engine)

get_engine_status(mic_ok) ==
    LET g == get_speech_engine(mic_ok)
    IN  /\ CallBegin("get_engine_status", None)
        /\ UseEngine(g)
        /\ Return(get_engine_status_payload(g), g.raised)

----------------------------------------------------------------------------
(* voice_server.py: transcribe_once *)

\* the payload built from a RecognitionResult
transcribe_success(result) ==
    [success |-> TRUE, text |-> result.text, backend |-> value(result.backend),
     confidence |-> result.confidence, processing_time |-> result.processing_time]

\* a slip: no clause for sr.WaitTimeoutError, a timeout is an ordinary failure
transcribe_once_except_NoTimeoutClause(e) ==
    [raises |-> FALSE,
     payload |-> [success |-> FALSE, error |-> "Transcription failed: " \o e.msg, text |-> ""]]

\* a slip: the exception is raised again instead of being turned into a payload
transcribe_once_except_Reraise(e) == [raises |-> TRUE, error |-> e]

\* the except clauses of transcribe_once applied to exception e.  The first
\* clause evaluates sr.WaitTimeoutError; sr is bound only if the speech
\* components were imported.
transcribe_once_except(e) ==
    IF ~env.SPEECH_COMPONENTS_AVAILABLE
    THEN [raises |-> TRUE,
          error |-> NewException("NameError", "name 'sr' is not defined", e)]
    ELSE IF e.type = "WaitTimeoutError"
    THEN [raises |-> FALSE,
          payload |-> [success |-> FALSE,
                       error |-> "No speech detected within timeout period",
                       text |-> "", timeout |-> TRUE]]
    ELSE [raises |-> FALSE,
          payload |-> [success |-> FALSE,
                       error |-> "Transcription failed: " \o e.msg,
                       text |-> ""]]

\* leave transcribe_once through its except clauses
Except(e) ==
    LET x == transcribe_once_except(e)
    IN  IF x.raises THEN Raise(x.error) ELSE Return(x.payload, e)

\* transcribe_once up to the captured audio
transcribe_once(backend, mic_ok, cap) ==
    LET g == get_speech_engine(mic_ok)
    IN  /\ CallBegin("transcribe_once", backend)
        /\ UseEngine(g)
        /\ IF g.raised # NoError THEN Except(g.raised)
           ELSE IF ~cap.ok THEN Except(cap.error)
           ELSE /\ pc' = "captured"
                /\ response' = NoPayload
                /\ caught' = NoError
                /\ escaped' = NoError

\* a slip: every member of the enumeration is taken to be in the mapping
BackendAvailable_Any(e, b) == TRUE

\* line 158: backend_enum in engine.engines
BackendAvailable(e, b) == b \in KeySet(e)

\* the choice between one named backend and the fallback system
transcribe_once_dispatch ==
    /\ pc = "captured"
    /\ UNCHANGED <<env, thr, speech_engine, built, tool, backend_arg, payload_arg, engine, attempts,
                   warnings, exc_info, rwf_out>>
    /\ IF Truthy(backend_arg)
       THEN LET name == lower(backend_arg)
            IN  IF name \notin BackendValues
                THEN /\ Except(NewException("Exception",
                                 "Invalid backend: " \o backend_arg,
                                 NewException("ValueError", "not a valid RecognitionBackend", NoError)))
                     /\ UNCHANGED <<rwf, inflight>>
                ELSE IF BackendAvailable(engine, FromValue(name))
                THEN /\ inflight' = FromValue(name)
                     /\ pc' = "direct_await"
                     /\ UNCHANGED <<rwf, response, caught, escaped>>
                ELSE /\ Except(NewException("Exception",
                                 "Backend '" \o backend_arg \o "' not available", NoError))
                     /\ UNCHANGED <<rwf, inflight>>
       ELSE /\ pc' = "rwf_primary"
            /\ rwf' = [stage |-> "primary", idx |-> 0]
            /\ UNCHANGED <<inflight, response, caught, escaped>>

\* the named backend's recognize finishes
direct_attempt_done ==
    /\ pc = "direct_await"
    /\ \E o \in RecognizeOutcomes(inflight) :
        /\ attempts' = Append(attempts, [backend |-> inflight, stage |-> "direct",
                                         ok |-> o.ok, result |-> o.result, error |-> o.error])
        /\ IF o.ok THEN Return(transcribe_success(o.result), NoError)
           ELSE IF o.error.type = "ValueError"
           THEN Except(NewException("Exception", "Invalid backend: " \o backend_arg, o.error))
           ELSE Except(o.error)
    /\ inflight' = None
    /\ UNCHANGED <<env, thr, speech_engine, built, tool, backend_arg, payload_arg, engine, rwf, warnings,
                   exc_info, rwf_out>>

----------------------------------------------------------------------------
(* speech_engines.py: MultiEngine.recognize_with_fallback *)

\* the exception still being handled once an except block has been left
ExceptExit(e) == NoError

\* where the coordinator continues after an attempt of the given stage failed
NextStage(stage, idx) ==
    CASE stage = "primary" -> [pc |-> "rwf_fallback", rwf |-> [stage |-> "fallback", idx |-> 0]]
      [] stage = "fallback" -> [pc |-> "rwf_remaining", rwf |-> [stage |-> "remaining", idx |-> 1]]
      [] OTHER -> [pc |-> "rwf_remaining", rwf |-> [stage |-> "remaining", idx |-> idx + 1]]

\* a slip: the primary is not looked up in the mapping before it is used
TryPrimary_NoMembership(e) == e.primary # None

\* line 266: is the primary tried
TryPrimary(e) == e.primary # None /\ e.primary \in KeySet(e)

\* line 275: is the fallback tried
TryFallback(e) == e.fallback # None /\ e.fallback \in KeySet(e)

\* a slip: the loop stops after the first key of the mapping
TryRemaining_FirstOnly(e, b) == b \notin {e.primary, e.fallback} /\ b = Keys(e)[1]

\* line 285: is this backend tried in the loop over the mapping
TryRemaining(e, b) == b \notin {e.primary, e.fallback}

\* a slip: a backend that was attempted is taken out of the mapping
rwf_frame_DropAttempted ==
    /\ speech_engine' =
        IF pc = "rwf_await"
        THEN [speech_engine EXCEPT !.engines = SelectSeq(@, LAMBDA x : x.backend # inflight)]
        ELSE speech_engine
    /\ UNCHANGED <<env, thr, built, tool, backend_arg, payload_arg, engine,
                   response, caught, escaped>>

rwf_frame == UNCHANGED <<env, thr, speech_engine, built, tool, backend_arg, payload_arg, engine,
                         response, caught, escaped>>

rwf_primary ==
    /\ pc = "rwf_primary"
    /\ IF TryPrimary(engine)
       THEN /\ inflight' = engine.primary
            /\ pc' = "rwf_await"
            /\ UNCHANGED rwf
       ELSE /\ pc' = "rwf_fallback"
            /\ rwf' = [stage |-> "fallback", idx |-> 0]
            /\ UNCHANGED inflight
    /\ UNCHANGED <<attempts, warnings, exc_info, rwf_out>>
    /\ rwf_frame

rwf_fallback ==
    /\ pc = "rwf_fallback"
    /\ IF TryFallback(engine)
       THEN /\ inflight' = engine.fallback
            /\ pc' = "rwf_await"
            /\ UNCHANGED rwf
       ELSE /\ pc' = "rwf_remaining"
            /\ rwf' = [stage |-> "remaining", idx |-> 1]
            /\ UNCHANGED inflight
    /\ UNCHANGED <<attempts, warnings, exc_info, rwf_out>>
    /\ rwf_frame

\* a slip: a backend the loop skips does not advance the iteration
rwf_remaining_NoAdvance ==
    /\ pc = "rwf_remaining"
    /\ IF rwf.idx > Len(engine.engines)
       THEN /\ pc' = "rwf_raise"
            /\ UNCHANGED <<rwf, inflight>>
       ELSE IF TryRemaining(engine, Keys(engine)[rwf.idx])
       THEN /\ inflight' = Keys(engine)[rwf.idx]
            /\ pc' = "rwf_await"
            /\ UNCHANGED rwf
       ELSE UNCHANGED <<pc, rwf, inflight>>
    /\ UNCHANGED <<attempts, warnings, exc_info, rwf_out>>
    /\ rwf_frame

\* one iteration of the loop over self.engines.items()
rwf_remaining ==
    /\ pc = "rwf_remaining"
    /\ IF rwf.idx > Len(engine.engines)
       THEN /\ pc' = "rwf_raise"
            /\ UNCHANGED <<rwf, inflight>>
       ELSE IF TryRemaining(engine, Keys(engine)[rwf.idx])
       THEN /\ inflight' = Keys(engine)[rwf.idx]
            /\ pc' = "rwf_await"
            /\ UNCHANGED rwf
       ELSE /\ rwf' = [rwf EXCEPT !.idx = @ + 1]
            /\ UNCHANGED <<pc, inflight>>
    /\ UNCHANGED <<attempts, warnings, exc_info, rwf_out>>
    /\ rwf_frame

\* a slip: the primary's branch has no return, so a successful primary is
\* followed by the fallback
AfterAttempt_NoReturnFromPrimary(o) ==
    IF o.ok /\ rwf.stage # "primary"
    THEN [pc |-> "rwf_done", rwf |-> rwf,
          out |-> [kind |-> "return", result |-> o.result],
          warned |-> <<>>, handling |-> exc_info]
    ELSE [pc |-> NextStage(rwf.stage, rwf.idx).pc, rwf |-> NextStage(rwf.stage, rwf.idx).rwf,
          out |-> rwf_out,
          warned |-> IF o.ok THEN <<>> ELSE <<inflight>>,
          handling |-> ExceptExit(o.error)]

\* a slip: the except clause raises the backend's exception again
AfterAttempt_Propagate(o) ==
    IF o.ok
    THEN [pc |-> "rwf_done", rwf |-> rwf,
          out |-> [kind |-> "return", result |-> o.result],
          warned |-> <<>>, handling |-> exc_info]
    ELSE [pc |-> "rwf_done", rwf |-> rwf,
          out |-> [kind |-> "raise", error |-> o.error],
          warned |-> <<inflight>>, handling |-> o.error]

\* what the try statement around an attempt does with its outcome o
AfterAttempt(o) ==
    IF o.ok
    THEN [pc |-> "rwf_done", rwf |-> rwf,
          out |-> [kind |-> "return", result |-> o.result],
          warned |-> <<>>, handling |-> exc_info]
    ELSE [pc |-> NextStage(rwf.stage, rwf.idx).pc, rwf |-> NextStage(rwf.stage, rwf.idx).rwf,
          out |-> rwf_out,
          warned |-> <<inflight>>, handling |-> ExceptExit(o.error)]

\* the awaited recognize finishes
rwf_attempt_done ==
    /\ pc = "rwf_await"
    /\ \E o \in RecognizeOutcomes(inflight) :
        LET a == AfterAttempt(o)
        IN  /\ attempts' = Append(attempts, [backend |-> inflight, stage |-> rwf.stage,
                                             ok |-> o.ok, result |-> o.result, error |-> o.error])
            /\ pc' = a.pc
            /\ rwf' = a.rwf
            /\ rwf_out' = a.out
            /\ warnings' = warnings \o a.warned
            /\ exc_info' = a.handling
    /\ inflight' = None
    /\ rwf_frame

\* a slip: the last backend's exception is quoted by and chained to the error
TerminalError_Chained ==
    LET last == IF attempts = <<>> THEN NoError ELSE attempts[Len(attempts)].error
    IN  NewException("Exception",
                     "All recognition engines failed: " \o
                        (IF last = NoError THEN "" ELSE last.msg),
                     last)

\* line 293
TerminalError == NewException("Exception", "All recognition engines failed", exc_info)

rwf_raise ==
    /\ pc = "rwf_raise"
    /\ rwf_out' = [kind |-> "raise", error |-> TerminalError]
    /\ pc' = "rwf_done"
    /\ UNCHANGED <<rwf, inflight, attempts, warnings, exc_info>>
    /\ rwf_frame

\* transcribe_once after recognize_with_fallback returned or raised
transcribe_once_finish ==
    /\ pc = "rwf_done"
    /\ IF rwf_out.kind = "return"
       THEN Return(transcribe_success(rwf_out.result), NoError)
       ELSE Except(rwf_out.error)
    /\ UNCHANGED <<env, thr, speech_engine, built, tool, backend_arg, payload_arg, engine, rwf, inflight,
                   attempts, warnings, exc_info, rwf_out>>

----------------------------------------------------------------------------

\* sr.Microphone() is called by the constructors only: its outcome matters
\* while the singleton is unset
MicChoices == IF speech_engine = NoEngine THEN BOOLEAN ELSE {TRUE}

Next ==
    \/ \E p \in Payloads : ping(p)
    \/ \E d \in Durations, m \in MicChoices, hw \in CaptureOutcomes : test_microphone(d, m, hw)
    \/ \E d \in Durations, m \in MicChoices, hw \in CaptureOutcomes : calibrate_audio(d, m, hw)
    \/ \E n \in 0..MaxDevices, m \in MicChoices, hw \in CaptureOutcomes : list_audio_devices(n, m, hw)
    \/ \E m \in MicChoices : get_engine_status(m)
    \/ \E b \in BackendArgs, m \in MicChoices, cap \in CaptureOutcomes : transcribe_once(b, m, cap)
    \/ transcribe_once_dispatch
    \/ direct_attempt_done
    \/ rwf_primary
    \/ rwf_fallback
    \/ rwf_remaining
    \/ rwf_attempt_done
    \/ rwf_raise
    \/ transcribe_once_finish

Spec == Init /\ [][Next]_vars

\* The event loop runs the coroutine of recognize_with_fallback whenever it
\* can continue, and every awaited recognize ends (with a result or an
\* exception)
FairSpec ==
    /\ Init /\ [][Next]_vars
    /\ WF_vars(rwf_primary)
    /\ WF_vars(rwf_fallback)
    /\ WF_vars(rwf_remaining)
    /\ WF_vars(rwf_attempt_done)
    /\ WF_vars(rwf_raise)

----------------------------------------------------------------------------
(* Properties of recognize_with_fallback *)

\* the attempts recognize_with_fallback made in this call
InFallbackCall == engine # NoEngine /\ rwf.stage # None

\* the indices of the attempts made on backend b
AttemptsOn(b) == {i \in DOMAIN attempts : attempts[i].backend = b}

\* the backends attempted, in order
Attempted == [i \in DOMAIN attempts |-> attempts[i].backend]

\* the candidate list of the contract: the primary if registered, the fallback
\* if different and registered, then the remaining keys in iteration order
PriorityOrder(e) ==
    LET p == IF e.primary \in KeySet(e) THEN <<e.primary>> ELSE <<>>
        f == IF e.fallback \in KeySet(e) /\ e.fallback # e.primary
             THEN <<e.fallback>> ELSE <<>>
    IN  p \o f \o SelectSeq(Keys(e), LAMBDA b : b # e.primary /\ b # e.fallback)

IsPrefix(s, t) == Len(s) <= Len(t) /\ \A i \in DOMAIN s : s[i] = t[i]

\* C1: in one call of recognize_with_fallback with primary = fallback and that
\* backend registered, the backend's recognize is attempted at most once
C1_SameBackendOnce ==
    InFallbackCall /\ engine.primary = engine.fallback /\ engine.primary \in KeySet(engine)
        => Cardinality(AttemptsOn(engine.primary)) <= 1

\* C2: the backends are attempted in the order primary, fallback if different
\* from the primary, remaining keys in iteration order: the attempts made so
\* far are always a prefix of that list
C2_PriorityOrder ==
    InFallbackCall => IsPrefix(Attempted, PriorityOrder(engine))

\* C3: when recognize_with_fallback returns, the result is that of the first
\* successful attempt, no attempt follows it, and the backend is the first in
\* priority order that has a successful attempt: every backend before it in
\* that order was attempted and failed
C3_FirstSuccessWins ==
    InFallbackCall /\ rwf_out.kind = "return" =>
        LET n == Len(attempts)
            order == PriorityOrder(engine)
        IN  /\ n >= 1
            /\ inflight = None
            /\ attempts[n].ok
            /\ rwf_out.result = attempts[n].result
            /\ rwf_out.result.backend = attempts[n].backend
            /\ \A i \in 1..(n - 1) : ~attempts[i].ok
            /\ \E k \in DOMAIN order :
                /\ order[k] = attempts[n].backend
                /\ \A j \in 1..(k - 1) :
                    /\ AttemptsOn(order[j]) # {}
                    /\ \A i \in AttemptsOn(order[j]) : ~attempts[i].ok

\* [A fails, B succeeds]: B's result is returned
C3_Witness ==
    /\ InFallbackCall /\ rwf_out.kind = "return"
    /\ Len(attempts) = 2
    /\ ~attempts[1].ok
    /\ attempts[2].backend # attempts[1].backend
    /\ rwf_out.result.backend = attempts[2].backend

\* C4: when the coordinator has finished and every attempt failed, it has
\* raised one error, an Exception with the fixed message, whose context is
\* empty: no per-backend error is chained to it or quoted by it
C4_SingleTerminalError ==
    InFallbackCall /\ pc = "rwf_done" /\ (\A i \in DOMAIN attempts : ~attempts[i].ok) =>
        /\ rwf_out.kind = "raise"
        /\ rwf_out.error = NewException("Exception", "All recognition engines failed", NoError)

C4_Witness ==
    /\ InFallbackCall /\ pc = "rwf_done" /\ rwf_out.kind = "raise"
    /\ Len(attempts) >= 2
    /\ \A i \in DOMAIN attempts : ~attempts[i].ok /\ attempts[i].error # NoError

\* C5: a backend's exception never leaves recognize_with_fallback: every
\* failed attempt is logged as a warning, after it the coordinator goes on to
\* the next candidate, and the only error it raises is the terminal one
C5_BackendErrorsIsolated ==
    InFallbackCall =>
        /\ LET failed == {i \in DOMAIN attempts : ~attempts[i].ok}
           IN  /\ failed = 1..Cardinality(failed)
               /\ warnings = [i \in failed |-> attempts[i].backend]
        /\ rwf_out.kind = "raise" =>
            /\ pc \in {"rwf_done", "idle"}
            /\ rwf_out.error.msg = "All recognition engines failed"
            /\ \A i \in DOMAIN attempts : rwf_out.error # attempts[i].error
        /\ (attempts # <<>> /\ ~attempts[Len(attempts)].ok /\ rwf_out.kind = None) =>
            pc \in {"rwf_fallback", "rwf_remaining", "rwf_await", "rwf_raise"}

\* a second candidate is awaited after the first one raised
C5_Witness ==
    /\ InFallbackCall /\ pc = "rwf_await"
    /\ Len(attempts) = 1 /\ ~attempts[1].ok
    /\ warnings = <<attempts[1].backend>>
    /\ inflight # attempts[1].backend

\* C6: at the moment the terminal error is raised every backend of the engines
\* mapping has been attempted in this call and every attempt failed
C6_RaisesOnlyAfterExhaustion ==
    InFallbackCall /\ rwf_out.kind = "raise" =>
        /\ \A b \in KeySet(engine) : AttemptsOn(b) # {}
        /\ \A i \in DOMAIN attempts : ~attempts[i].ok

C6_Witness ==
    /\ InFallbackCall /\ rwf_out.kind = "raise"
    /\ Cardinality(KeySet(engine)) = 2
    /\ KeySet(engine) = {attempts[i].backend : i \in DOMAIN attempts}

----------------------------------------------------------------------------
(* Properties of the tools *)

Finished == pc = "idle" /\ tool # None

\* C7: every tool catches every exception raised inside it: no call raises to
\* the RPC layer, and a call that caught an exception returns a payload with
\* success false and an error message
C7_UniformFailurePayload ==
    Finished =>
        /\ escaped = NoError
        /\ caught # NoError =>
            /\ "success" \in DOMAIN response
            /\ response.success = FALSE
            /\ "error" \in DOMAIN response

\* C8: transcribe_once without a backend, after recognize_with_fallback ended:
\* nothing is raised; total exhaustion gives success false, a non-empty error
\* and empty text, and then every registered backend was attempted and
\* failed; a successful attempt gives that backend's result
C8_ExhaustionBecomesPayload ==
    Finished /\ tool = "transcribe_once" /\ ~Truthy(backend_arg) /\ rwf_out.kind # None =>
        /\ escaped = NoError
        /\ IF rwf_out.kind = "raise"
           THEN /\ response.success = FALSE
                /\ response.error # ""
                /\ response.text = ""
                /\ \A b \in KeySet(engine) :
                    AttemptsOn(b) # {} /\ \A i \in AttemptsOn(b) : ~attempts[i].ok
           ELSE /\ response.success = TRUE
                /\ response.backend = value(attempts[Len(attempts)].backend)
                /\ response.text = attempts[Len(attempts)].result.text

C8_Witness ==
    /\ Finished /\ tool = "transcribe_once" /\ ~Truthy(backend_arg)
    /\ rwf_out.kind = "raise"
    /\ caught = rwf_out.error
    /\ response.success = FALSE

\* C9: a successful get_engine_status lists the value of every key of the
\* engines mapping and nothing else, counts the keys, and details those keys
C9_StatusReflectsMapping ==
    Finished /\ tool = "get_engine_status" /\ caught = NoError =>
        LET keys == KeySet(speech_engine)
            listed == response.available_engines
        IN  /\ {listed[i] : i \in DOMAIN listed} = {value(b) : b \in keys}
            /\ Len(listed) = Cardinality(keys)
            /\ response.total_engines = Cardinality(keys)
            /\ DOMAIN response.engine_details = {value(b) : b \in keys}

C9_Witness ==
    /\ Finished /\ tool = "get_engine_status" /\ caught = NoError
    /\ response.total_engines = 2
    /\ response.available_engines = <<"elevenlabs", "google">>

\* C10: a constructed MultiEngine holds only initialized backends: every
\* engine of the mapping is available, ElevenLabs is there only if
\* ELEVENLABS_API_KEY is set, and the openai backend is never there
C10_OnlyInitializedBackends ==
    speech_engine # NoEngine =>
        /\ \A i \in DOMAIN speech_engine.engines : speech_engine.engines[i].available
        /\ ELEVENLABS \in KeySet(speech_engine) =>
            env.ELEVENLABS_API_KEY \notin {Unset, ""}
        /\ OPENAI_REALTIME \notin KeySet(speech_engine)

\* the key is set, the SDK is missing, and the engine was pruned
C10_Witness ==
    /\ speech_engine # NoEngine
    /\ Truthy(env.ELEVENLABS_API_KEY)
    /\ env.elevenlabs_sdk = "ImportError"
    /\ KeySet(speech_engine) = {GOOGLE}

----------------------------------------------------------------------------
(* voice_server.py: get_speech_engine entered by several threads.  The     *)
(* function holds no lock; a thread can be preempted between the test of   *)
(* the global, the assignment to it and the return that reads it again.    *)

race_frame == UNCHANGED <<env, pc, tool, backend_arg, payload_arg, engine, rwf, inflight,
                          attempts, warnings, exc_info, rwf_out, response, caught, escaped>>

\* a slip that would hide the race: an instance stored meanwhile is kept
StoreEngine_KeepExisting(current, made) == IF current # NoEngine THEN current ELSE made

\* line 71: the assignment to the global, whatever it holds
StoreEngine(current, made) == made

\* line 68-70: the test of the global
race_check(t) ==
    /\ thr[t].pc = "start"
    /\ thr' = [thr EXCEPT ![t] =
                IF speech_engine # NoEngine THEN [@ EXCEPT !.pc = "return"]
                ELSE IF ~env.SPEECH_COMPONENTS_AVAILABLE
                THEN [@ EXCEPT !.pc = "done",
                               !.raised = NewException("Exception",
                                            "Speech components not available", NoError)]
                ELSE [@ EXCEPT !.pc = "construct"]]
    /\ UNCHANGED <<speech_engine, built>>
    /\ race_frame

\* line 71: MultiEngine() and the assignment
race_construct(t, mic_ok) ==
    /\ thr[t].pc = "construct"
    /\ LET m == MultiEngineInit(mic_ok)
       IN  IF m.ok
           THEN /\ speech_engine' = StoreEngine(speech_engine, m.engine)
                /\ built' = built + 1
                /\ thr' = [thr EXCEPT ![t].pc = "return", ![t].made = m.engine.id]
           ELSE /\ thr' = [thr EXCEPT ![t].pc = "done", ![t].raised = m.error]
                /\ UNCHANGED <<speech_engine, built>>
    /\ race_frame

\* line 73: return _speech_engine
race_return(t) ==
    /\ thr[t].pc = "return"
    /\ thr' = [thr EXCEPT ![t].pc = "done", ![t].inst = speech_engine]
    /\ UNCHANGED <<speech_engine, built>>
    /\ race_frame

NextRace ==
    \/ \E t \in Threads : race_check(t)
    \/ \E t \in Threads, m \in BOOLEAN : race_construct(t, m)
    \/ \E t \in Threads : race_return(t)

SpecRace == Init /\ [][NextRace]_vars

----------------------------------------------------------------------------
(* Properties of the singleton *)

\* C11: over tool calls executed one after another a MultiEngine is
\* constructed at most once after a successful construction: the singleton,
\* once set, is the first instance for ever, and every tool that obtained an
\* engine obtained that instance
C11_ConstructedOnce ==
    /\ built <= 1
    /\ speech_engine = NoEngine <=> built = 0
    /\ speech_engine # NoEngine => speech_engine.id = 1
    /\ engine # NoEngine => engine = speech_engine

\* a second engine-using call after the one that constructed the engine
C11_Witness ==
    /\ Finished /\ tool = "get_engine_status" /\ caught = NoError
    /\ built = 1 /\ engine = speech_engine /\ engine.id = 1

\* C12: nothing protects the first access.  Every thread that found the
\* global unset constructs its own MultiEngine and stores it over whatever
\* another thread stored meanwhile: the constructions are as many as those
\* threads, and the global is always the latest instance constructed
C12_UnprotectedFirstAccess ==
    /\ built = Cardinality({t \in Threads : thr[t].made # 0})
    /\ \A t, u \in Threads : t # u /\ thr[t].made # 0 => thr[t].made # thr[u].made
    /\ speech_engine = NoEngine <=> built = 0
    /\ speech_engine # NoEngine => speech_engine.id = built
    /\ \A t \in Threads : thr[t].inst # NoEngine =>
        thr[t].made <= thr[t].inst.id /\ thr[t].inst.id <= built

\* two callers passed the test, MultiEngine was constructed twice and the
\* callers hold different instances
C12_Witness ==
    /\ thr[1].pc = "done" /\ thr[2].pc = "done"
    /\ thr[1].made # 0 /\ thr[2].made # 0
    /\ built >= 2
    /\ thr[1].inst # NoEngine /\ thr[2].inst # NoEngine
    /\ thr[1].inst # thr[2].inst

----------------------------------------------------------------------------
(* More properties of the coordinator and of the tools *)

\* C13: within one recognize_with_fallback request the attempts are strictly
\* sequential: an attempt is in progress only at the await, then no result
\* has been returned and every earlier attempt has failed; an attempt starts
\* only when none is in progress, and the attempt that finishes is the one
\* in progress
C13_AttemptsSequential ==
    /\ [](InFallbackCall =>
            /\ inflight # None <=> pc = "rwf_await"
            /\ inflight # None =>
                /\ rwf_out.kind = None
                /\ \A i \in DOMAIN attempts : ~attempts[i].ok)
    /\ [][/\ (rwf'.stage # None /\ inflight' # None /\ inflight' # inflight) =>
                inflight = None /\ attempts' = attempts
          /\ (rwf.stage # None /\ Len(attempts') = Len(attempts) + 1) =>
                /\ inflight # None /\ inflight' = None
                /\ attempts'[Len(attempts')].backend = inflight]_vars

\* an attempt of the loop is in progress after earlier attempts failed
C13_Witness ==
    /\ InFallbackCall /\ pc = "rwf_await" /\ rwf.stage = "remaining"
    /\ inflight # None
    /\ Len(attempts) >= 1
    /\ \A i \in DOMAIN attempts : ~attempts[i].ok

\* C14: a capture that times out in transcribe_once gives a payload with
\* success false, timeout true and empty text; nothing is raised and no
\* backend is attempted in that call
C14_CaptureTimeout ==
    Finished /\ tool = "transcribe_once" /\ caught.type = "WaitTimeoutError" =>
        /\ escaped = NoError
        /\ "timeout" \in DOMAIN response
        /\ response.timeout = TRUE
        /\ response.success = FALSE
        /\ response.text = ""
        /\ attempts = <<>>
        /\ inflight = None
        /\ rwf_out.kind = None

C14_Witness ==
    /\ Finished /\ tool = "transcribe_once" /\ caught.type = "WaitTimeoutError"
    /\ response = [success |-> FALSE, error |-> "No speech detected within timeout period",
                   text |-> "", timeout |-> TRUE]

\* C15: transcribe_once with a backend name attempts only that backend and
\* never falls back: a name in the mapping gets at most one attempt, on that
\* backend, and a failed attempt gives a failure payload; a name of the
\* enumeration that is not in the mapping (openai always), or a name outside
\* the enumeration, gets no attempt and a failure payload
C15_NamedBackendOnly ==
    tool = "transcribe_once" /\ Truthy(backend_arg) =>
        LET name == lower(backend_arg)
            registered == engine # NoEngine /\ name \in BackendValues
                          /\ FromValue(name) \in KeySet(engine)
        IN  /\ rwf.stage = None /\ rwf_out.kind = None
            /\ Len(attempts) <= 1
            /\ \A i \in DOMAIN attempts :
                /\ registered
                /\ attempts[i].backend = FromValue(name)
                /\ attempts[i].stage = "direct"
            /\ inflight # None => registered /\ inflight = FromValue(name) /\ attempts = <<>>
            /\ name = "openai" => attempts = <<>> /\ inflight = None
            /\ Finished =>
                /\ (registered /\ caught.type \notin {"OSError", "WaitTimeoutError",
                                                       "AttributeError"}) =>
                    Len(attempts) = 1
                /\ escaped = NoError =>
                    /\ response.success <=> (attempts # <<>> /\ attempts[1].ok)
                    /\ ~registered => ~response.success
                /\ (escaped = NoError /\ response.success) =>
                    response.backend = name

\* the named backend was attempted once, failed, and no other was tried
C15_Witness ==
    /\ Finished /\ tool = "transcribe_once" /\ backend_arg = "Google"
    /\ Len(attempts) = 1 /\ ~attempts[1].ok /\ attempts[1].backend = GOOGLE
    /\ Cardinality(KeySet(engine)) = 2
    /\ response.success = FALSE

\* C16: ping returns ok True and the payload unchanged under echo, for every
\* payload, and neither reads nor creates the singleton speech engine
C16_PingEchoes ==
    [][(pc = "idle" /\ tool' = "ping") =>
            /\ pc' = "idle"
            /\ escaped' = NoError
            /\ response'.ok = TRUE
            /\ response'.echo = payload_arg'
            /\ engine' = NoEngine
            /\ speech_engine' = speech_engine
            /\ built' = built]_vars

C16_Witness ==
    /\ Finished /\ tool = "ping"
    /\ payload_arg = [test |-> "data"]
    /\ response = [ok |-> TRUE, echo |-> [test |-> "data"], server |-> "Claude Voice Commands"]
    /\ speech_engine = NoEngine

----------------------------------------------------------------------------
(* Construction, backend names and the lifetime of the mapping *)

\* the failure of the audio binding in SpeechEngine.__init__
MicFailure == NewException("AttributeError", "Could not find PyAudio", NoError)

\* C17: constructing MultiEngine never fails because of one backend: when the
\* speech components are imported, whatever SDKs and credentials are there,
\* a tool that asked for the engine and did not get one met the failure of
\* the audio binding, never the failure of a backend's constructor
C17_ConstructionSurvivesBackends ==
    (Finished /\ tool # "ping" /\ env.SPEECH_COMPONENTS_AVAILABLE /\ speech_engine = NoEngine)
        => caught = MicFailure

\* C18: transcribe_once reports 'Invalid backend' only for a name that is not
\* a value of the enumeration
C18_InvalidBackendOnlyForBadName ==
    (/\ Finished /\ tool = "transcribe_once" /\ Truthy(backend_arg)
     /\ escaped = NoError
     /\ "error" \in DOMAIN response
     /\ response.error = "Transcription failed: Invalid backend: " \o backend_arg)
        => lower(backend_arg) \notin BackendValues

\* C19: a primary or fallback that cannot be used is skipped without error: a
\* configured name outside the enumeration gives None at construction; in
\* recognize_with_fallback a primary or fallback that is None or not in the
\* mapping is not attempted, only backends of the mapping are attempted, and
\* the call still ends with a result or with every backend of the mapping
\* attempted
C19_UnusableConfigSkipped ==
    /\ speech_engine # NoEngine =>
        /\ lower(getenv("VOICE_BACKEND", "elevenlabs")) \notin BackendValues =>
            speech_engine.primary = None
        /\ lower(getenv("VOICE_FALLBACK", "google")) \notin BackendValues =>
            speech_engine.fallback = None
    /\ InFallbackCall =>
        /\ \A i \in DOMAIN attempts : attempts[i].backend \in KeySet(engine)
        /\ inflight \in KeySet(engine) \cup {None}
        /\ engine.primary \notin KeySet(engine) =>
            /\ \A i \in DOMAIN attempts : attempts[i].stage # "primary"
            /\ ~(pc = "rwf_await" /\ rwf.stage = "primary")
        /\ engine.fallback \notin KeySet(engine) =>
            /\ \A i \in DOMAIN attempts : attempts[i].stage # "fallback"
            /\ ~(pc = "rwf_await" /\ rwf.stage = "fallback")
        /\ (\/ engine.primary \notin KeySet(engine)
            \/ engine.fallback \notin KeySet(engine)) =>
            /\ rwf_out.kind = "raise" =>
                /\ rwf_out.error.msg = "All recognition engines failed"
                /\ \A b \in KeySet(engine) : AttemptsOn(b) # {}
            /\ (pc \in {"rwf_done", "idle"}) => rwf_out.kind \in {"return", "raise"}

\* VOICE_BACKEND is outside the enumeration, VOICE_FALLBACK names a backend
\* that is not in the mapping, and both backends of the mapping were tried
C19_Witness ==
    /\ InFallbackCall
    /\ env.VOICE_BACKEND = "bogus" /\ engine.primary = None
    /\ engine.fallback = OPENAI_REALTIME
    /\ rwf_out.kind = "raise"
    /\ Attempted = <<ELEVENLABS, GOOGLE>>

\* C20: once a MultiEngine is constructed no step of any tool changes the
\* keys of its engines mapping, their order, the primary or the fallback, so
\* the priority order is the same on every request
C20_MappingFrozen ==
    [][speech_engine # NoEngine =>
            /\ speech_engine' # NoEngine
            /\ Keys(speech_engine') = Keys(speech_engine)
            /\ speech_engine'.primary = speech_engine.primary
            /\ speech_engine'.fallback = speech_engine.fallback
            /\ PriorityOrder(speech_engine') = PriorityOrder(speech_engine)
            /\ (engine' # NoEngine => Keys(engine') = Keys(speech_engine))]_vars

\* every backend failed in a request and the mapping still holds them all
C20_Witness ==
    /\ Finished /\ tool = "transcribe_once" /\ rwf_out.kind = "raise"
    /\ response.success = FALSE
    /\ Keys(speech_engine) = <<ELEVENLABS, GOOGLE>>
    /\ Attempted = <<GOOGLE, ELEVENLABS>>

----------------------------------------------------------------------------
(* A construction that fails, and termination of the coordinator *)

\* the exceptions get_speech_engine can raise
ConstructionErrors ==
    {NewException("Exception", "Speech components not available", NoError),
     MicFailure,
     NewException("AttributeError", "'NoneType' object has no attribute 'get'", NoError)}

\* the exception of get_speech_engine arrived in the tool that has just
\* finished: it was caught there, or it was being handled when the tool's
\* except clause raised
ConstructionFailed ==
    /\ Finished /\ tool # "ping"
    /\ \/ caught \in ConstructionErrors
       \/ escaped # NoError /\ escaped.context \in ConstructionErrors

\* C21: when get_speech_engine raises, the singleton stays unset and the
\* exception reaches the calling tool; no partially built engine is stored;
\* the next call that asks for the engine runs the construction again, and
\* either stores a complete engine or fails the same way
C21_FailedConstructionNotStored ==
    /\ [](/\ ConstructionFailed => speech_engine = NoEngine /\ engine = NoEngine /\ built = 0
          /\ (Finished /\ tool # "ping" /\ speech_engine = NoEngine) => ConstructionFailed
          /\ speech_engine # NoEngine =>
                /\ env.SPEECH_COMPONENTS_AVAILABLE
                /\ Len(speech_engine.engines) >= 1
                /\ \A i \in DOMAIN speech_engine.engines : speech_engine.engines[i].available)
    /\ [][(ConstructionFailed /\ tool' # "ping") =>
            \/ /\ speech_engine' # NoEngine
               /\ built' = 1
               /\ engine' = speech_engine'
               /\ caught' \notin ConstructionErrors
            \/ /\ speech_engine' = NoEngine
               /\ built' = 0
               /\ ConstructionFailed']_vars

\* the audio binding failed in a constructor, in an environment where the
\* construction can succeed on the next call
C21_Witness ==
    /\ ConstructionFailed
    /\ caught = MicFailure
    /\ env.SPEECH_COMPONENTS_AVAILABLE /\ ~env.whisper_installed
    /\ speech_engine = NoEngine /\ built = 0

\* the positions inside recognize_with_fallback
InCoordinator ==
    pc \in {"rwf_primary", "rwf_fallback", "rwf_remaining", "rwf_await", "rwf_raise"}

\* C22: provided every attempt ends, every call of recognize_with_fallback
\* ends, with a result or with the terminal error, and makes no more attempts
\* than the engines mapping has backends, plus one
C22_CoordinatorTerminates ==
    /\ [](InFallbackCall =>
            Len(attempts) + (IF pc = "rwf_await" THEN 1 ELSE 0) <= Len(engine.engines) + 1)
    /\ [](pc = "rwf_done" =>
            \/ rwf_out.kind = "return"
            \/ rwf_out.kind = "raise" /\ rwf_out.error.msg = "All recognition engines failed")
    /\ (InCoordinator ~> pc = "rwf_done")

\* the call ended with the terminal error after as many attempts as the
\* bound allows
C22_Witness ==
    /\ pc = "rwf_done" /\ rwf_out.kind = "raise"
    /\ Len(engine.engines) = 2
    /\ Len(attempts) = Len(engine.engines) + 1

====
